---- MODULE Spec2Model ----
(***************************************************************************)
(* Model of the AddLiquidity instruction builder of the Plasma TypeScript  *)
(* SDK (sdk/typescript/generated/instructions/AddLiquidity.ts) and of the  *)
(* program id constants (sdk/typescript/generated/programId.ts).           *)
(*                                                                         *)
(* A call of AddLiquidity(args, accounts, programId) is run in three       *)
(* steps, one per group of statements of the function body:                *)
(*   BuildKeys  lines 122-133   the account meta array                     *)
(*   Encode     lines 134-141   identifier, scratch buffer, layout.encode  *)
(*   Finish     lines 142-144   concat + slice, TransactionInstruction     *)
(* Several calls run side by side; every call has its own locals and the   *)
(* scratch buffers live in a heap indexed by buffer id.                    *)
(***************************************************************************)
EXTENDS Integers, Sequences, FiniteSets, TLC

\* number of calls running side by side
NCalls == 2

Calls == 1..NCalls

\* Buffer.alloc(1000)
ScratchSize == 1000

\* span of a borsh u64, in bytes
U64Span == 8

\* accounts.role of a role the binding does not have
Undefined == "undefined"

\* an optional value: <<>> is null, <<v>> is the value v
Null == <<>>

Some(v) == <<v>>

NoError == [name |-> "none", field |-> "none"]

(***************************************************************************)
(* programId.ts                                                            *)
(***************************************************************************)
PROGRAM_ID_IDL == "srAMMzfVHVAtgSJc8iH6CfKzuWuUTzLHVCE81QU1rgi"

PROGRAM_ID == PROGRAM_ID_IDL

(***************************************************************************)
(* Big numbers (bn.js): a sign and the magnitude as little-endian words of *)
(* two bytes each, without a zero top word.                                *)
(***************************************************************************)
BNOf(words) == [negative |-> FALSE, words |-> words]

BNNeg(words) == [negative |-> TRUE, words |-> words]

\* BN.prototype.byteLength
byteLength(bn) ==
    IF bn.words = <<>> THEN 0
    ELSE 2 * (Len(bn.words) - 1) + (IF bn.words[Len(bn.words)] < 256 THEN 1 ELSE 2)

\* byte i (from 0) of the magnitude, little-endian
ByteOfWords(words, i) ==
    IF (i \div 2) + 1 > Len(words) THEN 0
    ELSE IF i % 2 = 0 THEN words[(i \div 2) + 1] % 256
         ELSE words[(i \div 2) + 1] \div 256

\* BN.prototype.toArrayLike(Buffer, "le", length): the magnitude, the sign
\* is not looked at; the caller checks byteLength(bn) <= length
toArrayLike(bn, length) ==
    SubSeq([i \in 1..length |-> ByteOfWords(bn.words, i - 1)], 1, length)

RECURSIVE Strip(_)
\* BN.prototype._strip: drop zero top words
Strip(words) ==
    IF words = <<>> THEN <<>>
    ELSE IF words[Len(words)] = 0 THEN Strip(SubSeq(words, 1, Len(words) - 1))
         ELSE words

\* new BN(bytes, "le") for an even number of bytes
BNFromArray(bytes) ==
    BNOf(Strip([w \in 1..(Len(bytes) \div 2) |->
                  bytes[2 * w - 1] + 256 * bytes[2 * w]]))

(***************************************************************************)
(* Buffers: sequences of bytes, offsets count from 0.                      *)
(***************************************************************************)
\* Buffer.alloc(n): n zero bytes
BufferAllocZero(n) == SubSeq([i \in 1..n |-> 0], 1, n)

\* Buffer.prototype.set / copy of bytes at offset
BufferWrite(b, offset, bytes) ==
    SubSeq(b, 1, offset) \o bytes \o SubSeq(b, offset + Len(bytes) + 1, Len(b))

Min(a, b) == IF a < b THEN a ELSE b

\* Buffer.prototype.slice(start, end) with 0 <= start, end clamped to the length
BufferSlice(b, start, end) == SubSeq(b, start + 1, Min(end, Len(b)))

\* Buffer.concat([a, b])
BufferConcat(a, b) == a \o b

(***************************************************************************)
(* Layouts.  encode gives [ok, b, n]: the buffer after the writes and the  *)
(* number of bytes written, or ok = FALSE with the error; the bytes        *)
(* written before the failure stay in the buffer.                          *)
(***************************************************************************)
EncOk(b, n) == [ok |-> TRUE, b |-> b, n |-> n, error |-> NoError]

EncFail(b, e) == [ok |-> FALSE, b |-> b, n |-> 0, error |-> e]

\* borsh.u64(property).encode(src, b, offset)
U64Encode(src, b, offset) ==
    IF byteLength(src) > U64Span
    THEN EncFail(b, [name |-> "EncodingError", field |-> "u64"])
    ELSE IF offset + U64Span > Len(b)
         THEN EncFail(b, [name |-> "EncodingError", field |-> "buffer"])
         ELSE EncOk(BufferWrite(b, offset, toArrayLike(src, U64Span)), U64Span)

\* borsh.option(borsh.u64(), property).encode(src, b, offset)
OptionEncode(src, b, offset) ==
    IF offset + 1 > Len(b)
    THEN EncFail(b, [name |-> "EncodingError", field |-> "buffer"])
    ELSE IF src = Null
         THEN EncOk(BufferWrite(b, offset, <<0>>), 1)
         ELSE LET r == U64Encode(src[1], BufferWrite(b, offset, <<1>>), offset + 1)
              IN  IF r.ok THEN EncOk(r.b, r.n + 1) ELSE r

\* types.AddLiquidityIxParams.toEncodable(fields)
toEncodable(fields) ==
    [desiredBaseAmountIn  |-> fields.desiredBaseAmountIn,
     desiredQuoteAmountIn |-> fields.desiredQuoteAmountIn,
     initialLpShares      |-> fields.initialLpShares]

\* types.AddLiquidityIxParams.layout("params").encode(src, b, offset):
\* the fields in declaration order, packed
ParamsEncode(src, b, offset) ==
    LET r1 == U64Encode(src.desiredBaseAmountIn, b, offset)
    IN  IF ~r1.ok THEN r1
        ELSE LET r2 == U64Encode(src.desiredQuoteAmountIn, r1.b, offset + r1.n)
             IN  IF ~r2.ok THEN r2
                 ELSE LET r3 == OptionEncode(src.initialLpShares, r2.b,
                                             offset + r1.n + r2.n)
                      IN  IF ~r3.ok THEN r3
                          ELSE EncOk(r3.b, r1.n + r2.n + r3.n)

\* layout.encode(src, b): borsh.struct([AddLiquidityIxParams.layout("params")])
layoutEncode(src, b) == ParamsEncode(src.params, b, 0)

DecFail == [ok |-> FALSE, value |-> <<>>, n |-> 0]

DecOk(v, n) == [ok |-> TRUE, value |-> v, n |-> n]

\* borsh.u64().decode(b, offset)
U64Decode(b, offset) ==
    IF offset + U64Span > Len(b) THEN DecFail
    ELSE DecOk(BNFromArray(SubSeq(b, offset + 1, offset + U64Span)), U64Span)

\* borsh.option(borsh.u64()).decode(b, offset)
OptionDecode(b, offset) ==
    IF offset + 1 > Len(b) THEN DecFail
    ELSE IF b[offset + 1] = 0 THEN DecOk(Null, 1)
    ELSE IF b[offset + 1] = 1
         THEN LET r == U64Decode(b, offset + 1)
              IN  IF r.ok THEN DecOk(Some(r.value), r.n + 1) ELSE DecFail
         ELSE DecFail

\* types.AddLiquidityIxParams.layout("params").decode(b, offset)
ParamsDecode(b, offset) ==
    LET r1 == U64Decode(b, offset)
    IN  IF ~r1.ok THEN DecFail
        ELSE LET r2 == U64Decode(b, offset + r1.n)
             IN  IF ~r2.ok THEN DecFail
                 ELSE LET r3 == OptionDecode(b, offset + r1.n + r2.n)
                      IN  IF ~r3.ok THEN DecFail
                          ELSE DecOk([desiredBaseAmountIn  |-> r1.value,
                                      desiredQuoteAmountIn |-> r2.value,
                                      initialLpShares      |-> r3.value],
                                     r1.n + r2.n + r3.n)

\* layout.decode(b)
layoutDecode(b) ==
    LET r == ParamsDecode(b, 0)
    IN  IF r.ok THEN DecOk([params |-> r.value], r.n) ELSE DecFail

(***************************************************************************)
(* AddLiquidity.ts                                                         *)
(***************************************************************************)
\* the roles of AddLiquidityAccounts, in declaration order
Roles ==
    <<"plasmaProgram", "logAuthority", "pool", "trader", "lpPosition",
      "baseAccount", "quoteAccount", "baseVault", "quoteVault", "tokenProgram">>

\* accounts.role: an account binding is the sequence of its (role, address)
\* entries in insertion order, one entry per role at most
Get(accounts, role) ==
    IF \E i \in 1..Len(accounts) : accounts[i].role = role
    THEN accounts[CHOOSE i \in 1..Len(accounts) : accounts[i].role = role].pubkey
    ELSE Undefined

Meta(pubkey, isSigner, isWritable) ==
    [pubkey |-> pubkey, isSigner |-> isSigner, isWritable |-> isWritable]

\* keys taken from the binding in its insertion order
Keys_InsertionOrder(accounts) ==
    LET at(i) == IF i <= Len(accounts) THEN accounts[i].pubkey ELSE Undefined
    IN  << Meta(at(1), FALSE, FALSE), Meta(at(2), FALSE, FALSE),
           Meta(at(3), FALSE, TRUE), Meta(at(4), TRUE, FALSE),
           Meta(at(5), FALSE, TRUE), Meta(at(6), FALSE, TRUE),
           Meta(at(7), FALSE, TRUE), Meta(at(8), FALSE, TRUE),
           Meta(at(9), FALSE, TRUE), Meta(at(10), FALSE, FALSE) >>

\* keys with the trader writable and the pool read-only
Keys_TraderWritable(accounts) ==
    << Meta(Get(accounts, "plasmaProgram"), FALSE, FALSE),
       Meta(Get(accounts, "logAuthority"), FALSE, FALSE),
       Meta(Get(accounts, "pool"), FALSE, FALSE),
       Meta(Get(accounts, "trader"), TRUE, TRUE),
       Meta(Get(accounts, "lpPosition"), FALSE, TRUE),
       Meta(Get(accounts, "baseAccount"), FALSE, TRUE),
       Meta(Get(accounts, "quoteAccount"), FALSE, TRUE),
       Meta(Get(accounts, "baseVault"), FALSE, TRUE),
       Meta(Get(accounts, "quoteVault"), FALSE, TRUE),
       Meta(Get(accounts, "tokenProgram"), FALSE, FALSE) >>

\* const keys: Array<AccountMeta> = [...]
Keys(accounts) ==
    << Meta(Get(accounts, "plasmaProgram"), FALSE, FALSE),
       Meta(Get(accounts, "logAuthority"), FALSE, FALSE),
       Meta(Get(accounts, "pool"), FALSE, TRUE),
       Meta(Get(accounts, "trader"), TRUE, FALSE),
       Meta(Get(accounts, "lpPosition"), FALSE, TRUE),
       Meta(Get(accounts, "baseAccount"), FALSE, TRUE),
       Meta(Get(accounts, "quoteAccount"), FALSE, TRUE),
       Meta(Get(accounts, "baseVault"), FALSE, TRUE),
       Meta(Get(accounts, "quoteVault"), FALSE, TRUE),
       Meta(Get(accounts, "tokenProgram"), FALSE, FALSE) >>

\* const identifier = Buffer.from([1])
Identifier == <<1>>

\* one scratch buffer for all calls
BufferAlloc_Shared(c) == 1

\* const buffer = Buffer.alloc(1000): the id of the buffer of call c
BufferAlloc(c) == c

\* the programId passed is not looked at
DefaultProgramId_Ignored(pid) == PROGRAM_ID

\* programId: PublicKey = PROGRAM_ID
DefaultProgramId(pid) == IF pid = Undefined THEN PROGRAM_ID ELSE pid

\* the error of layout.encode is swallowed
AfterEncode_Swallow(r) == "finish"

\* no try/catch around layout.encode: a failed encode leaves the function
AfterEncode(r) == IF r.ok THEN "finish" ELSE "thrown"

\* the payload without the slice
Data_NoSlice(identifier, buffer, len) == BufferConcat(identifier, buffer)

\* the payload with the scratch buffer before the identifier
Data_BufferFirst(identifier, buffer, len) ==
    BufferSlice(BufferConcat(buffer, identifier), 0, 1 + len)

\* the payload cut at len instead of 1 + len
Data_ShortSlice(identifier, buffer, len) ==
    BufferSlice(BufferConcat(identifier, buffer), 0, len)

\* Buffer.concat([identifier, buffer]).slice(0, 1 + len)
Data(identifier, buffer, len) ==
    BufferSlice(BufferConcat(identifier, buffer), 0, 1 + len)

\* new TransactionInstruction({ keys, programId, data })
TransactionInstruction(keys, pid, data) ==
    [keys |-> keys, programId |-> pid, data |-> data]

(***************************************************************************)
(* The arguments the callers pass.                                         *)
(***************************************************************************)
Zero == BNOf(<<>>)

Small == BNOf(<<100>>)

Mid == BNOf(<<513, 1027>>)

MaxU64 == BNOf(<<65535, 65535, 65535, 65535>>)

TooBig == BNOf(<<0, 0, 0, 0, 1>>)

Negative == BNNeg(<<5>>)

Fields(base, quote, shares) ==
    [desiredBaseAmountIn |-> base, desiredQuoteAmountIn |-> quote,
     initialLpShares |-> shares]

PSome == Fields(Small, Mid, Some(MaxU64))

PNull == Fields(Zero, Small, Null)

PMax == Fields(MaxU64, MaxU64, Some(Zero))

PTooBigFirst == Fields(TooBig, Small, Null)

PTooBigLast == Fields(Small, Mid, Some(TooBig))

PNegative == Fields(Negative, Small, Null)

ParamsSeq == <<PSome, PNull, PMax, PTooBigFirst, PTooBigLast, PNegative>>

Addresses == <<"K1", "K2", "K3", "K4", "K5", "K6", "K7", "K8", "K9", "K10">>

Entry(role, pubkey) == [role |-> role, pubkey |-> pubkey]

\* every role bound, inserted in declaration order
FullBinding == [i \in 1..10 |-> Entry(Roles[i], Addresses[i])]

\* the same binding, inserted in the opposite order
ReversedBinding == [i \in 1..10 |-> FullBinding[11 - i]]

\* the addresses handed to the roles the other way round
SwappedBinding == [i \in 1..10 |-> Entry(Roles[i], Addresses[11 - i])]

\* the binding without role number k
MissingBinding(k) ==
    [i \in 1..9 |-> IF i < k THEN FullBinding[i] ELSE FullBinding[i + 1]]

\* a binding with a role AddLiquidityAccounts does not declare
ExtraBinding == <<Entry("feeVault", "K11")>> \o FullBinding

BindingSeq ==
    <<ReversedBinding, SwappedBinding, ExtraBinding>>
        \o [k \in 1..10 |-> MissingBinding(k)]

AltProgram == "AltProgram1111111111111111111111111111111111"

Passed(params, accounts, pid) ==
    [args |-> [params |-> params], accounts |-> accounts, programId |-> pid]

\* the argument lists tried: every parameter record with the full binding,
\* every other binding with one record, and the other program with some
Inputs ==
    [i \in 1..Len(ParamsSeq) |-> Passed(ParamsSeq[i], FullBinding, Undefined)]
        \o [i \in 1..Len(BindingSeq) |-> Passed(PSome, BindingSeq[i], Undefined)]
        \o << Passed(PSome, FullBinding, AltProgram),
               Passed(PNull, FullBinding, AltProgram),
               Passed(PNull, ReversedBinding, AltProgram) >>

\* the calls are interchangeable: call c + 1 takes an argument list that is
\* not before the one of call c in Inputs
Choices ==
    {f \in [Calls -> 1..Len(Inputs)] :
        \A c \in Calls : c + 1 \in Calls => f[c] <= f[c + 1]}

(***************************************************************************)
(* State                                                                   *)
(***************************************************************************)
VARIABLES
    pc,         \* where each call is: "enter", "encode", "finish", "returned", "thrown"
    passed,     \* what the caller passed: args, accounts, programId
    keys,       \* local keys
    programId,  \* parameter programId, after the default
    buffer,     \* local buffer: the id of the scratch buffer
    len,        \* local len
    heap,       \* the content of every buffer, by id
    ix,         \* <<the instruction returned>>, or <<>>
    error       \* <<the error thrown>>, or <<>>

vars == <<pc, passed, keys, programId, buffer, len, heap, ix, error>>

Init ==
    /\ pc = [c \in Calls |-> "enter"]
    /\ passed \in {[c \in Calls |-> Inputs[f[c]]] : f \in Choices}
    /\ keys = [c \in Calls |-> <<>>]
    /\ programId = [c \in Calls |-> Undefined]
    /\ buffer = [c \in Calls |-> 0]
    /\ len = [c \in Calls |-> 0]
    /\ heap = [b \in Calls |-> <<>>]
    /\ ix = [c \in Calls |-> <<>>]
    /\ error = [c \in Calls |-> <<>>]

\* lines 117-133: the parameters, and keys
BuildKeys(c) ==
    /\ pc[c] = "enter"
    /\ programId' = [programId EXCEPT ![c] = DefaultProgramId(passed[c].programId)]
    /\ keys' = [keys EXCEPT ![c] = Keys(passed[c].accounts)]
    /\ pc' = [pc EXCEPT ![c] = "encode"]
    /\ UNCHANGED <<passed, buffer, len, heap, ix, error>>

\* lines 134-141, layout.encode returns len
EncodeReturn(c) ==
    LET id == BufferAlloc(c)
        r == layoutEncode([params |-> toEncodable(passed[c].args.params)],
                          BufferAllocZero(ScratchSize))
    IN  /\ pc[c] = "encode"
        /\ AfterEncode(r) = "finish"
        /\ buffer' = [buffer EXCEPT ![c] = id]
        /\ heap' = [heap EXCEPT ![id] = r.b]
        /\ len' = [len EXCEPT ![c] = r.n]
        /\ pc' = [pc EXCEPT ![c] = "finish"]
        /\ UNCHANGED <<passed, keys, programId, ix, error>>

\* lines 134-141, layout.encode throws
EncodeThrow(c) ==
    LET id == BufferAlloc(c)
        r == layoutEncode([params |-> toEncodable(passed[c].args.params)],
                          BufferAllocZero(ScratchSize))
    IN  /\ pc[c] = "encode"
        /\ AfterEncode(r) = "thrown"
        /\ buffer' = [buffer EXCEPT ![c] = id]
        /\ heap' = [heap EXCEPT ![id] = r.b]
        /\ error' = [error EXCEPT ![c] = <<r.error>>]
        /\ pc' = [pc EXCEPT ![c] = "thrown"]
        /\ UNCHANGED <<passed, keys, programId, len, ix>>

\* lines 142-144
Finish(c) ==
    /\ pc[c] = "finish"
    /\ ix' = [ix EXCEPT ![c] =
                <<TransactionInstruction(keys[c], programId[c],
                                         Data(Identifier, heap[buffer[c]], len[c]))>>]
    /\ pc' = [pc EXCEPT ![c] = "returned"]
    /\ UNCHANGED <<passed, keys, programId, buffer, len, heap, error>>

Next ==
    \/ \E c \in Calls : BuildKeys(c)
    \/ \E c \in Calls : EncodeReturn(c)
    \/ \E c \in Calls : EncodeThrow(c)
    \/ \E c \in Calls : Finish(c)

Spec == Init /\ [][Next]_vars

(***************************************************************************)
(* Properties                                                              *)
(***************************************************************************)
Returned(c) == pc[c] = "returned"

Thrown(c) == pc[c] = "thrown"

\* the roles the binding has
RolesOf(accounts) == {accounts[i].role : i \in 1..Len(accounts)}

DeclaredRoles == {Roles[i] : i \in 1..Len(Roles)}

IsU64(bn) == ~bn.negative /\ byteLength(bn) <= 8

\* the parameter records the schema accepts: u64, u64, option of u64
Accepts(v) ==
    /\ IsU64(v.desiredBaseAmountIn)
    /\ IsU64(v.desiredQuoteAmountIn)
    /\ v.initialLpShares # Null => IsU64(v.initialLpShares[1])

\* the size of the encoding of a record: 8 + 8 + 1, and 8 more with shares
EncodedSize(v) == IF v.initialLpShares = Null THEN 17 ELSE 25

\* C1: the payload of a returned instruction has exactly 1 + len bytes, len
\* being what layout.encode returned; nothing of the rest of the 1000-byte
\* scratch buffer is in it and nothing of the encoding is cut off.
C1_ExactLength ==
    \A c \in Calls : Returned(c) =>
        /\ Len(ix[c][1].data) = 1 + len[c]
        /\ Len(heap[buffer[c]]) = 1000
        /\ len[c] < 1000

C1_Witness ==
    \E c \in Calls :
        /\ Returned(c)
        /\ len[c] = 25
        /\ Len(ix[c][1].data) = 26
        /\ Len(heap[buffer[c]]) = 1000

\* C2: a returned instruction has the 10 account metas in the order
\* plasmaProgram, logAuthority, pool, trader, lpPosition, baseAccount,
\* quoteAccount, baseVault, quoteVault, tokenProgram, each with the address
\* the binding has for that role, whatever the insertion order of the binding.
C2_AccountOrder ==
    \A c \in Calls : Returned(c) =>
        LET order == <<"plasmaProgram", "logAuthority", "pool", "trader",
                       "lpPosition", "baseAccount", "quoteAccount", "baseVault",
                       "quoteVault", "tokenProgram">>
            acc == passed[c].accounts
        IN  /\ Len(ix[c][1].keys) = 10
            /\ \A i \in 1..10 : \A j \in 1..Len(acc) :
                    acc[j].role = order[i] => ix[c][1].keys[i].pubkey = acc[j].pubkey

C2_Witness ==
    \E c \in Calls :
        /\ Returned(c)
        /\ passed[c].accounts[1].role = "tokenProgram"
        /\ passed[c].accounts[10].role = "plasmaProgram"
        /\ ix[c][1].keys[1].pubkey = "K1"
        /\ ix[c][1].keys[10].pubkey = "K10"

\* C3: a call whose binding lacks one of the 10 roles fails with
\* MissingAccountError naming that role and returns no instruction.
C3_MissingAccountError ==
    \A c \in Calls :
        \A r \in DeclaredRoles \ RolesOf(passed[c].accounts) :
            pc[c] \in {"returned", "thrown"} =>
                /\ Thrown(c)
                /\ ix[c] = <<>>
                /\ error[c] = <<[name |-> "MissingAccountError", field |-> r]>>

\* C4: the flags of the metas of a returned instruction are those of the
\* action: trader is the only signer and is not writable; pool, lpPosition,
\* baseAccount, quoteAccount, baseVault and quoteVault are writable and do
\* not sign; plasmaProgram, logAuthority and tokenProgram do neither.
C4_FixedFlags ==
    \A c \in Calls : Returned(c) =>
        LET k == ix[c][1].keys
        IN  /\ Len(k) = 10
            /\ \A i \in 1..10 : k[i].isSigner = (i = 4)
            /\ \A i \in 1..10 : k[i].isWritable = (i \in {3, 5, 6, 7, 8, 9})

C4_Witness ==
    \E c \in Calls :
        /\ Returned(c)
        /\ passed[c].accounts = SwappedBinding
        /\ ix[c][1].keys[4] = [pubkey |-> "K7", isSigner |-> TRUE, isWritable |-> FALSE]
        /\ ix[c][1].keys[3] = [pubkey |-> "K8", isSigner |-> FALSE, isWritable |-> TRUE]

\* C5: the payload of a returned instruction is the byte 1 followed at once
\* by the first len bytes layout.encode wrote at offset 0 of the scratch
\* buffer.
C5_WireFormat ==
    \A c \in Calls : Returned(c) =>
        LET data == ix[c][1].data
        IN  /\ Len(data) >= 1 + len[c]
            /\ data[1] = 1
            /\ \A i \in 1..len[c] : data[1 + i] = heap[buffer[c]][i]

C5_Witness ==
    \E c \in Calls :
        /\ Returned(c)
        /\ passed[c].args.params = PSome
        /\ ix[c][1].data = << 1,
                              100, 0, 0, 0, 0, 0, 0, 0,
                              1, 2, 3, 4, 0, 0, 0, 0,
                              1, 255, 255, 255, 255, 255, 255, 255, 255 >>

\* C6: a returned instruction targets the address of the IDL when no
\* programId was passed and the address passed otherwise, and two calls that
\* differ in the programId only return the same metas and the same payload.
C6_ProgramId ==
    /\ PROGRAM_ID = PROGRAM_ID_IDL
    /\ \A c \in Calls : Returned(c) =>
            ix[c][1].programId =
                IF passed[c].programId = Undefined
                THEN "srAMMzfVHVAtgSJc8iH6CfKzuWuUTzLHVCE81QU1rgi"
                ELSE passed[c].programId
    /\ \A c, d \in Calls :
            /\ Returned(c) /\ Returned(d)
            /\ passed[c].args = passed[d].args
            /\ passed[c].accounts = passed[d].accounts
            => /\ ix[c][1].keys = ix[d][1].keys
               /\ ix[c][1].data = ix[d][1].data

C6_Witness ==
    \E c, d \in Calls :
        /\ Returned(c) /\ Returned(d)
        /\ passed[c].args = passed[d].args
        /\ passed[c].accounts = passed[d].accounts
        /\ passed[c].programId = Undefined
        /\ passed[d].programId = AltProgram
        /\ ix[c][1].programId = PROGRAM_ID_IDL
        /\ ix[d][1].programId = AltProgram

\* C7: for a parameter record the schema accepts, decoding the payload of
\* the returned instruction without its first byte gives the record back.
C7_RoundTrip ==
    \A c \in Calls : Returned(c) /\ Accepts(passed[c].args.params) =>
        LET r == layoutDecode(Tail(ix[c][1].data))
        IN  /\ r.ok
            /\ r.value.params = passed[c].args.params
            /\ r.n = Len(ix[c][1].data) - 1

C7_Witness ==
    \E c \in Calls :
        /\ Returned(c)
        /\ passed[c].args.params = PMax
        /\ layoutDecode(Tail(ix[c][1].data)).value.params = PMax

\* a field that does not fit the 8 bytes of a u64: its encoding fails
TooWide(v) ==
    \/ byteLength(v.desiredBaseAmountIn) > 8
    \/ byteLength(v.desiredQuoteAmountIn) > 8
    \/ v.initialLpShares # Null /\ byteLength(v.initialLpShares[1]) > 8

\* C8: a call whose encoding fails ends with the error and without an
\* instruction, also when part of the record is already in the scratch
\* buffer, and a call that returns has a complete payload of the exact
\* length.
C8_Atomic ==
    \A c \in Calls :
        /\ pc[c] \in {"finish", "returned", "thrown"} /\ TooWide(passed[c].args.params)
            => /\ Thrown(c)
               /\ error[c] = <<[name |-> "EncodingError", field |-> "u64"]>>
        /\ Thrown(c) => ix[c] = <<>>
        /\ Returned(c) =>
            /\ error[c] = <<>>
            /\ Len(ix[c][1].data) = 1 + EncodedSize(passed[c].args.params)
            /\ Tail(ix[c][1].data) =
                   SubSeq(heap[buffer[c]], 1, EncodedSize(passed[c].args.params))

C8_Witness ==
    \E c \in Calls :
        /\ Thrown(c)
        /\ passed[c].args.params = PTooBigLast
        /\ SubSeq(heap[buffer[c]], 1, 17) =
               <<100, 0, 0, 0, 0, 0, 0, 0, 1, 2, 3, 4, 0, 0, 0, 0, 1>>
        /\ ix[c] = <<>>
        /\ error[c] = <<[name |-> "EncodingError", field |-> "u64"]>>

\* C9: a call whose binding has a role the template does not declare is
\* rejected with DuplicateRoleError and returns no instruction.
C9_DuplicateRoleError ==
    \A c \in Calls :
        \A r \in RolesOf(passed[c].accounts) \ DeclaredRoles :
            pc[c] \in {"returned", "thrown"} =>
                /\ Thrown(c)
                /\ ix[c] = <<>>
                /\ error[c] = <<[name |-> "DuplicateRoleError", field |-> r]>>

\* what a call returns when it runs alone
Alone(p) ==
    LET r == layoutEncode([params |-> toEncodable(p.args.params)],
                          BufferAllocZero(ScratchSize))
    IN  TransactionInstruction(Keys(p.accounts), DefaultProgramId(p.programId),
                               Data(Identifier, r.b, r.n))

\* C10: whatever the other calls do in between, a call returns what it
\* returns when run alone, two calls with equal arguments return equal
\* instructions, and no call uses the scratch buffer of another.
C10_Stateless ==
    /\ \A c \in Calls : Returned(c) => ix[c][1] = Alone(passed[c])
    /\ \A c, d \in Calls :
            Returned(c) /\ Returned(d) /\ passed[c] = passed[d] => ix[c] = ix[d]
    /\ \A c, d \in Calls :
            c # d /\ buffer[c] # 0 /\ buffer[d] # 0 => buffer[c] # buffer[d]

C10_Witness ==
    \E c, d \in Calls :
        /\ c # d
        /\ Returned(c) /\ Returned(d)
        /\ passed[c].args # passed[d].args
        /\ ix[c][1].data # ix[d][1].data
        /\ ix[c][1] = Alone(passed[c])
        /\ ix[d][1] = Alone(passed[d])

====
